---- MODULE Spec2Model ----
(***************************************************************************)
(* create-pull-request.py: one run of the script is a process that walks   *)
(* the module-level code top to bottom (event load, ignore filter, branch  *)
(* naming, the three skip gates, process_event).  Runs execute against a   *)
(* shared hosting service (the branches of origin, the pull requests) and  *)
(* each in the working copy its CI job checked out.                        *)
(***************************************************************************)
EXTENDS Integers, Sequences, FiniteSets, TLC

VARIABLES
    run,             \* run[r]: the run in working copy r (environment, locals, position)
    started,         \* how many runs the CI platform has started
    remoteBranches,  \* branch names that exist on the hosting service (origin)
    pullRequests,    \* pull requests opened on the hosting service, in order
    gitGlobalConfig, \* the host's global git identity (git config --global)
    clock            \* wall clock, in ticks of 1/TicksPerSecond seconds

vars == <<run, started, remoteBranches, pullRequests, gitGlobalConfig, clock>>

-----------------------------------------------------------------------------
(* Bounds of the model *)

NumRuns == 2
MaxClock == 2
TicksPerSecond == 2

\* the working copies (job workspaces) runs execute in
Workers == {1, 2}

-----------------------------------------------------------------------------
(* Python values and string operations *)

\* os.environ.get / os.getenv of a variable that is not set
NoValue == "<unset>"

\* s.startswith(p)
StartsWith(s, p) == Len(s) >= Len(p) /\ SubSeq(s, 1, Len(p)) = p

\* s[n:]
SliceFrom(s, n) == IF Len(s) <= n THEN "" ELSE SubSeq(s, n + 1, Len(s))

\* bool(os.environ.get(k)): None and the empty string are false
Truthy(v) == v /= NoValue /\ v /= ""

\* os.getenv(k, default)
GetEnv(env, k, default) == IF env[k] = NoValue THEN default ELSE env[k]

\* JSON values of the event payload, as json.load returns them
JBool(b) == [type |-> "bool", b |-> b]
JStr(s) == [type |-> "str", s |-> s]

\* "{key}".format(**event_data) renders the value with str()
PyStr(v) == IF v.type = "bool" THEN (IF v.b THEN "True" ELSE "False") ELSE v.s

\* the result of a call: a returned value, or a raised exception
Return(v) == [raised |-> FALSE, value |-> v, error |-> NoValue]
Raise(e) == [raised |-> TRUE, value |-> FALSE, error |-> e]

-----------------------------------------------------------------------------
(* Inputs: environments, event payloads, commits *)

DefaultBranch == "create-pull-request/patch"
DefaultCommitMessage == "Auto-committed changes by create-pull-request action"
DefaultTitle == "Auto-generated by create-pull-request action"
DefaultBody == "Auto-generated pull request by [create-pull-request](https://github.com/peter-evans/create-pull-request) GitHub Action"

\* Full object names of the commits a job may have checked out.  git
\* abbreviates an object name to a prefix that is unique in the repository;
\* the two names differ within the abbreviation length.
Commits == {"3f9a2c1e07", "3f9a2cd512"}
AbbrevLen == 7

\* an environment in which every variable the script reads is set or unset
BaseEnv ==
    [GITHUB_EVENT_NAME |-> "push",
     GITHUB_EVENT_PATH |-> "/github/workflow/event.json",
     GITHUB_REF |-> "refs/heads/main",
     GITHUB_TOKEN |-> "s3cr3t",
     GITHUB_REPOSITORY |-> "octo/repo",
     GITHUB_ACTOR |-> "octocat",
     SKIP_IGNORE |-> NoValue,
     PULL_REQUEST_BRANCH |-> NoValue,
     BRANCH_SUFFIX |-> NoValue,
     COMMIT_MESSAGE |-> NoValue,
     PULL_REQUEST_TITLE |-> NoValue,
     PULL_REQUEST_BODY |-> NoValue]

EventNames == {"push", "pull_request"}
GithubRefs == {"refs/heads/main", "refs/heads/create-pull-request/patch-xyz", "refs/tags/v1"}
BranchSettings == {NoValue, "create-pull-request"}
SuffixSettings == {NoValue, "timestamp"}
SkipSettings == {NoValue, "true"}

\* the environments with every required variable set
FullEnvs ==
    {[BaseEnv EXCEPT !.GITHUB_EVENT_NAME = n, !.GITHUB_REF = g, !.SKIP_IGNORE = k,
                     !.PULL_REQUEST_BRANCH = b, !.BRANCH_SUFFIX = x] :
        n \in EventNames, g \in GithubRefs, k \in SkipSettings,
        b \in BranchSettings, x \in SuffixSettings}

RequiredEnv == {"GITHUB_EVENT_NAME", "GITHUB_EVENT_PATH", "GITHUB_REF",
                "GITHUB_TOKEN", "GITHUB_REPOSITORY"}

\* environments that lack one variable the script reads with os.environ[...]
LackingEnvs ==
    {[BaseEnv EXCEPT ![k] = NoValue] : k \in RequiredEnv}
    \cup {[BaseEnv EXCEPT !.GITHUB_EVENT_NAME = "pull_request", ![k] = NoValue] :
            k \in {"GITHUB_ACTOR", "GITHUB_TOKEN"}}

\* environments that set the optional texts, or name the default suffix mode
CustomEnvs ==
    {[BaseEnv EXCEPT !.COMMIT_MESSAGE = "update", !.PULL_REQUEST_TITLE = "Update",
                     !.PULL_REQUEST_BODY = "body", !.SKIP_IGNORE = ""],
     [BaseEnv EXCEPT !.BRANCH_SUFFIX = "short-commit-hash"]}

Environments == FullEnvs \cup LackingEnvs \cup CustomEnvs

HeadCommit == [type |-> "obj", author |-> [email |-> "mona@example.com", name |-> "Mona"]]

\* head commits whose author lacks a field
HeadCommitNoEmail == [type |-> "obj", author |-> [name |-> "Mona"]]
HeadCommitNoName == [type |-> "obj", author |-> [email |-> "mona@example.com"]]
HeadCommits == {HeadCommit, HeadCommitNoEmail, HeadCommitNoName}

\* the payload has each of the keys the script reads, or lacks it
DeletedValues == {JBool(TRUE), JBool(FALSE)}
RefValues == {JStr("refs/heads/main"), JStr("refs/tags/v1")}

Restrict(f, keys) == [k \in keys |-> f[k]]

AllPayloads ==
    {Restrict([deleted |-> d, ref |-> g, head_commit |-> h], keys) :
        d \in DeletedValues, g \in RefValues, h \in HeadCommits,
        keys \in SUBSET {"deleted", "ref", "head_commit"}}

\* one payload of each kind the run distinguishes
Payloads ==
    {p \in AllPayloads :
        \/ DOMAIN p = {"deleted", "ref", "head_commit"} /\ p["head_commit"] = HeadCommit
        \/ DOMAIN p = {"deleted", "ref", "head_commit"}
                /\ p["deleted"] = JBool(FALSE) /\ p["ref"] = JStr("refs/heads/main")
        \/ DOMAIN p = {"deleted", "ref"} /\ p["deleted"] = JBool(FALSE) /\ p["ref"] = JStr("refs/heads/main")
        \/ DOMAIN p = {"deleted", "head_commit"}
                /\ p["deleted"] = JBool(FALSE) /\ p["head_commit"] = HeadCommit
        \/ DOMAIN p = {"deleted"} /\ p["deleted"] = JBool(TRUE)
        \/ DOMAIN p = {"ref", "head_commit"}
                /\ p["ref"] = JStr("refs/tags/v1") /\ p["head_commit"] = HeadCommit
        \/ DOMAIN p = {}}

-----------------------------------------------------------------------------
(* The functions of the script *)

\* the filter reading ref before deleted
ignore_event_ref_first(event_name, event_data) ==
    IF event_name = "push"
    THEN IF "ref" \notin DOMAIN event_data
         THEN Raise("KeyError: ref")
         ELSE IF ~StartsWith(PyStr(event_data["ref"]), "refs/heads/")
              THEN Return(TRUE)
              ELSE IF "deleted" \notin DOMAIN event_data
                   THEN Raise("KeyError: deleted")
                   ELSE Return(PyStr(event_data["deleted"]) = "True")
    ELSE Return(FALSE)

\* the filter without the test of ref
ignore_event_deleted_only(event_name, event_data) ==
    IF event_name = "push"
    THEN IF "deleted" \notin DOMAIN event_data
         THEN Raise("KeyError: deleted")
         ELSE Return(PyStr(event_data["deleted"]) = "True")
    ELSE Return(FALSE)

\* the filter without the test of the event name
ignore_event_any_name(event_name, event_data) ==
    IF "deleted" \notin DOMAIN event_data
    THEN Raise("KeyError: deleted")
    ELSE IF PyStr(event_data["deleted"]) = "True"
         THEN Return(TRUE)
         ELSE IF "ref" \notin DOMAIN event_data
              THEN Raise("KeyError: ref")
              ELSE Return(~StartsWith(PyStr(event_data["ref"]), "refs/heads/"))

\* ignore_event(event_name, event_data): True, False, or KeyError when the
\* format string names a key the payload lacks
ignore_event(event_name, event_data) ==
    IF event_name = "push"
    THEN IF "deleted" \notin DOMAIN event_data
         THEN Raise("KeyError: deleted")
         ELSE IF PyStr(event_data["deleted"]) = "True"
              THEN Return(TRUE)
              ELSE IF "ref" \notin DOMAIN event_data
                   THEN Raise("KeyError: ref")
                   ELSE IF ~StartsWith(PyStr(event_data["ref"]), "refs/heads/")
                        THEN Return(TRUE)
                        ELSE Return(FALSE)
    ELSE Return(FALSE)

\* the scan over the local branches
pr_branch_exists_local(repo, branch) ==
    \E ref \in repo.heads : ref = branch

\* the scan comparing against the bare branch name
pr_branch_exists_bare(repo, branch) ==
    \E ref \in repo.refs : ref = branch

\* pr_branch_exists(repo, branch): scans the remote-tracking references
pr_branch_exists(repo, branch) ==
    \E ref \in repo.refs : ref = "origin/" \o branch

\* the author with empty strings in place of missing fields
get_head_author_lenient(env, event_name, event_data) ==
    IF event_name = "push"
    THEN LET hc == IF "head_commit" \in DOMAIN event_data
                   THEN event_data["head_commit"] ELSE [type |-> "obj"]
             au == IF "author" \in DOMAIN hc THEN hc["author"] ELSE <<>>
         IN Return([email |-> IF "email" \in DOMAIN au THEN au["email"] ELSE "",
                    name |-> IF "name" \in DOMAIN au THEN au["name"] ELSE ""])
    ELSE IF env["GITHUB_ACTOR"] = NoValue
         THEN Raise("KeyError: GITHUB_ACTOR")
         ELSE Return([email |-> env["GITHUB_ACTOR"] \o "@users.noreply.github.com",
                      name |-> env["GITHUB_ACTOR"]])

\* get_head_author(event_name, event_data): (email, name); the format
\* strings read head_commit[author][email], then head_commit[author][name]
get_head_author(env, event_name, event_data) ==
    IF event_name = "push"
    THEN IF "head_commit" \notin DOMAIN event_data
         THEN Raise("KeyError: head_commit")
         ELSE IF "author" \notin DOMAIN event_data["head_commit"]
         THEN Raise("KeyError: author")
         ELSE IF "email" \notin DOMAIN event_data["head_commit"]["author"]
         THEN Raise("KeyError: email")
         ELSE IF "name" \notin DOMAIN event_data["head_commit"]["author"]
         THEN Raise("KeyError: name")
         ELSE Return([email |-> event_data["head_commit"]["author"]["email"],
                      name |-> event_data["head_commit"]["author"]["name"]])
    ELSE IF env["GITHUB_ACTOR"] = NoValue
         THEN Raise("KeyError: GITHUB_ACTOR")
         ELSE Return([email |-> env["GITHUB_ACTOR"] \o "@users.noreply.github.com",
                      name |-> env["GITHUB_ACTOR"]])

\* get_head_short_sha1(repo): git rev-parse --short HEAD
get_head_short_sha1(repo) == SubSeq(repo.head, 1, AbbrevLen)

\* the clock read in minutes
EpochMinutes(t) == t \div (60 * TicksPerSecond)

\* int(time.time())
EpochSeconds(t) == t \div TicksPerSecond

\* the suffix modes exchanged
SuffixedBranchExchanged(branch, branch_suffix, repo, now) ==
    IF branch_suffix /= "timestamp"
    THEN branch \o "-" \o ToString(EpochSeconds(now))
    ELSE branch \o "-" \o get_head_short_sha1(repo)

\* lines 139-145: the branch name with its suffix
SuffixedBranch(branch, branch_suffix, repo, now) ==
    IF branch_suffix = "timestamp"
    THEN branch \o "-" \o ToString(EpochSeconds(now))
    ELSE branch \o "-" \o get_head_short_sha1(repo)

\* the change test with >= in place of >
HasChangesOrNone(repo) == repo.dirty \/ repo.untracked >= 0

\* repo.is_dirty() or len(repo.untracked_files) > 0
HasChanges(repo) == repo.dirty \/ repo.untracked > 0

\* the id of the commit that git commit creates on top of parent
NewCommit(parent) == "c0" \o SliceFrom(parent, 2)

-----------------------------------------------------------------------------
(* State *)

NoRepo == [head |-> NoValue, dirty |-> FALSE, untracked |-> 0, refs |-> {},
           heads |-> {}, active_branch |-> NoValue, staged |-> FALSE,
           message |-> NoValue, url |-> NoValue, upstream |-> NoValue]

\* a run that has not started
IdleRun ==
    [pc |-> "idle", env |-> BaseEnv, event_file |-> <<>>, repo |-> NoRepo,
     event_name |-> NoValue, event_data |-> <<>>, skip_ignore_event |-> FALSE,
     ignored |-> NoValue, branch |-> NoValue, base |-> NoValue,
     author |-> [email |-> NoValue, name |-> NoValue],
     calls |-> <<>>, outcome |-> NoValue, reason |-> NoValue,
     number |-> 0, may_fail |-> FALSE, steps |-> <<>>, derived_at |-> 0,
     remote_at_check |-> {}, checked |-> NoValue,
     start |-> [repo |-> NoRepo, remoteBranches |-> {}, pullRequests |-> <<>>,
                gitGlobalConfig |-> [email |-> NoValue, name |-> NoValue]]]

\* the working copies a job's checkout step can leave: HEAD at a commit of
\* the repository, a detached checkout, tracked files modified or not, some
\* untracked files or none, and the remote-tracking references of its fetch
\* (every branch of origin, or the triggering branch alone)
TrackingRefs(branches) == {"origin/" \o b : b \in branches}

Checkouts ==
    {[NoRepo EXCEPT !.head = h, !.dirty = d, !.untracked = u, !.refs = f,
                    !.url = "https://github.com/octo/repo"] :
        h \in Commits, d \in BOOLEAN, u \in {0, 1},
        f \in {TrackingRefs(remoteBranches), TrackingRefs({"main"})}}

\* run r executes the step it stands at: `steps` records it, upd assigns
With(r, upd) ==
    run' = [run EXCEPT ![r] = upd @@ [steps |-> Append(run[r].steps, run[r].pc)] @@ run[r]]

UnchangedWorld == UNCHANGED <<started, remoteBranches, pullRequests, gitGlobalConfig, clock>>

\* the script falls off its end without publishing
Skip(r, why) ==
    /\ With(r, [pc |-> "done", outcome |-> "SKIPPED", reason |-> why])
    /\ UnchangedWorld

\* an exception nothing catches ends the process
Abort(r, why) ==
    /\ With(r, [pc |-> "done", outcome |-> "ABORTED", reason |-> why])
    /\ UnchangedWorld

Init ==
    /\ run = [r \in Workers |-> IdleRun]
    /\ started = 0
    /\ remoteBranches \in {{"main"}, {"main", DefaultBranch \o "-3f9a2c1"}}
    /\ pullRequests = <<>>
    /\ gitGlobalConfig = [email |-> NoValue, name |-> NoValue]
    /\ clock = 0

-----------------------------------------------------------------------------
(* One run: the module-level code, lines 122-161 *)

\* the CI platform starts the next run in working copy r: it sets the
\* environment, writes the event file and checks the repository out.  The
\* platform serializes runs: the next one starts when the last one has ended.
\* `start` keeps what the run found, for comparison with what it leaves.
StartRun(r, limit, envs, payloads, checkouts, faults) ==
    /\ started < limit
    /\ r = (started % 2) + 1
    /\ \A q \in Workers : run[q].pc \in {"idle", "done"}
    /\ \E env \in envs, payload \in payloads, wc \in checkouts, f \in faults :
        run' = [run EXCEPT ![r] =
                  [IdleRun EXCEPT !.pc = "load", !.number = started + 1, !.env = env,
                                  !.event_file = payload, !.repo = wc, !.may_fail = f,
                                  !.start = [repo |-> wc,
                                             remoteBranches |-> remoteBranches,
                                             pullRequests |-> pullRequests,
                                             gitGlobalConfig |-> gitGlobalConfig]]]
    /\ started' = started + 1
    /\ UNCHANGED <<remoteBranches, pullRequests, gitGlobalConfig, clock>>

\* the CI platform starts a job in working copy r while another job may be
\* running in the other working copy
StartJob(r, envs, payloads, checkouts, faults) ==
    /\ run[r].pc = "idle"
    /\ \E env \in envs, payload \in payloads, wc \in checkouts, f \in faults :
        run' = [run EXCEPT ![r] =
                  [IdleRun EXCEPT !.pc = "load", !.number = started + 1, !.env = env,
                                  !.event_file = payload, !.repo = wc, !.may_fail = f,
                                  !.start = [repo |-> wc,
                                             remoteBranches |-> remoteBranches,
                                             pullRequests |-> pullRequests,
                                             gitGlobalConfig |-> gitGlobalConfig]]]
    /\ started' = started + 1
    /\ UNCHANGED <<remoteBranches, pullRequests, gitGlobalConfig, clock>>

\* lines 123-124
LoadEvent(r) ==
    /\ run[r].pc = "load"
    /\ IF run[r].env["GITHUB_EVENT_NAME"] = NoValue
       THEN Abort(r, "KeyError: GITHUB_EVENT_NAME")
       ELSE IF run[r].env["GITHUB_EVENT_PATH"] = NoValue
       THEN Abort(r, "KeyError: GITHUB_EVENT_PATH")
       ELSE /\ With(r, [pc |-> "filter",
                        event_name |-> run[r].env["GITHUB_EVENT_NAME"],
                        event_data |-> run[r].event_file])
            /\ UnchangedWorld

\* the condition of line 127 without its `not`
IgnoreCheckNoNot(r) ==
    /\ run[r].pc = "filter"
    /\ LET skip == Truthy(run[r].env["SKIP_IGNORE"])
           res == ignore_event(run[r].event_name, run[r].event_data)
       IN IF skip
          THEN With(r, [pc |-> "open", skip_ignore_event |-> TRUE]) /\ UnchangedWorld
          ELSE IF res.raised
          THEN /\ With(r, [pc |-> "done", outcome |-> "ABORTED",
                           reason |-> res.error, ignored |-> "KeyError"])
               /\ UnchangedWorld
          ELSE IF res.value
          THEN With(r, [pc |-> "open", ignored |-> "True"]) /\ UnchangedWorld
          ELSE /\ With(r, [pc |-> "done", outcome |-> "SKIPPED",
                           reason |-> "ignored", ignored |-> "False"])
               /\ UnchangedWorld

\* lines 126-127: ignore_event is called only when SKIP_IGNORE is not set
IgnoreCheck(r) ==
    /\ run[r].pc = "filter"
    /\ LET skip == Truthy(run[r].env["SKIP_IGNORE"])
           res == ignore_event(run[r].event_name, run[r].event_data)
       IN IF skip
          THEN With(r, [pc |-> "open", skip_ignore_event |-> TRUE]) /\ UnchangedWorld
          ELSE IF res.raised
          THEN /\ With(r, [pc |-> "done", outcome |-> "ABORTED",
                           reason |-> res.error, ignored |-> "KeyError"])
               /\ UnchangedWorld
          ELSE IF res.value
          THEN /\ With(r, [pc |-> "done", outcome |-> "SKIPPED",
                           reason |-> "ignored", ignored |-> "True"])
               /\ UnchangedWorld
          ELSE With(r, [pc |-> "open", ignored |-> "False"]) /\ UnchangedWorld

\* the origin URL rewritten when the repository is opened
OpenRepoSettingUrl(r) ==
    /\ run[r].pc = "open"
    /\ LET branch == GetEnv(run[r].env, "PULL_REQUEST_BRANCH", DefaultBranch)
       IN IF run[r].env["GITHUB_REF"] = NoValue
          THEN Abort(r, "KeyError: GITHUB_REF")
          ELSE /\ With(r, [pc |-> "prefix", branch |-> branch,
                           base |-> SliceFrom(run[r].env["GITHUB_REF"], 11),
                           repo |-> [run[r].repo EXCEPT !.url =
                              "https://x-access-token:" \o run[r].env["GITHUB_TOKEN"]
                              \o "@github.com/" \o run[r].env["GITHUB_REPOSITORY"]]])
               /\ UnchangedWorld

\* the suffix derived without the test of line 137
OpenRepoNoPrefixCheck(r) ==
    /\ run[r].pc = "open"
    /\ LET branch == GetEnv(run[r].env, "PULL_REQUEST_BRANCH", DefaultBranch)
       IN IF run[r].env["GITHUB_REF"] = NoValue
          THEN Abort(r, "KeyError: GITHUB_REF")
          ELSE /\ With(r, [pc |-> "derive", branch |-> branch,
                           base |-> SliceFrom(run[r].env["GITHUB_REF"], 11)])
               /\ UnchangedWorld

\* lines 129-134
OpenRepo(r) ==
    /\ run[r].pc = "open"
    /\ LET branch == GetEnv(run[r].env, "PULL_REQUEST_BRANCH", DefaultBranch)
       IN IF run[r].env["GITHUB_REF"] = NoValue
          THEN Abort(r, "KeyError: GITHUB_REF")
          ELSE /\ With(r, [pc |-> "prefix", branch |-> branch,
                           base |-> SliceFrom(run[r].env["GITHUB_REF"], 11)])
               /\ UnchangedWorld

\* the prefix check as an equality test
PrefixCheckEqual(r) ==
    /\ run[r].pc = "prefix"
    /\ IF run[r].base /= run[r].branch
       THEN With(r, [pc |-> "derive"]) /\ UnchangedWorld
       ELSE Skip(r, "base is a pull request branch")

\* lines 137, 159-161
PrefixCheck(r) ==
    /\ run[r].pc = "prefix"
    /\ IF ~StartsWith(run[r].base, run[r].branch)
       THEN With(r, [pc |-> "derive"]) /\ UnchangedWorld
       ELSE Skip(r, "base is a pull request branch")

\* lines 139-145; time has passed since the clock was last read
DeriveBranch(r) ==
    /\ run[r].pc = "derive"
    /\ LET branch_suffix == GetEnv(run[r].env, "BRANCH_SUFFIX", "short-commit-hash")
       IN \E now \in clock..MaxClock :
            /\ With(r, [pc |-> "exists", derived_at |-> now,
                        branch |-> SuffixedBranch(run[r].branch, branch_suffix,
                                                  run[r].repo, now)])
            /\ clock' = now
            /\ UNCHANGED <<started, remoteBranches, pullRequests, gitGlobalConfig>>

\* lines 148, 155-158; `checked` keeps the name the check was made for and
\* `remote_at_check` the branches origin has at this moment, which the check
\* does not read
ExistsCheck(r) ==
    /\ run[r].pc = "exists"
    /\ IF ~pr_branch_exists(run[r].repo, run[r].branch)
       THEN /\ With(r, [pc |-> "changes", checked |-> run[r].branch,
                        remote_at_check |-> remoteBranches])
            /\ UnchangedWorld
       ELSE /\ With(r, [pc |-> "done", outcome |-> "SKIPPED", reason |-> "branch exists",
                        checked |-> run[r].branch, remote_at_check |-> remoteBranches])
            /\ UnchangedWorld

\* lines 150-154
ChangesCheck(r) ==
    /\ run[r].pc = "changes"
    /\ IF HasChanges(run[r].repo)
       THEN With(r, [pc |-> "process_event"]) /\ UnchangedWorld
       ELSE Skip(r, "no changes")

-----------------------------------------------------------------------------
(* process_event, lines 82-119.  A git command or the hosting API call     *)
(* either completes or raises; an exception ends the run where it stands.  *)

Called(r, what) == Append(run[r].calls, what)

\* whether a collaborator call completes
Results(r) == IF run[r].may_fail THEN BOOLEAN ELSE {TRUE}

\* the token read with a default in place of os.environ[...]
ProcessEventTokenOptional(r) ==
    /\ run[r].pc = "process_event"
    /\ LET author == get_head_author(run[r].env, run[r].event_name, run[r].event_data)
       IN IF run[r].env["GITHUB_REPOSITORY"] = NoValue
          THEN Abort(r, "KeyError: GITHUB_REPOSITORY")
          ELSE IF author.raised
          THEN Abort(r, author.error)
          ELSE With(r, [pc |-> "set_git_config", author |-> author.value]) /\ UnchangedWorld

\* lines 84-98: required and optional settings, then the author
ProcessEvent(r) ==
    /\ run[r].pc = "process_event"
    /\ LET author == get_head_author(run[r].env, run[r].event_name, run[r].event_data)
       IN IF run[r].env["GITHUB_TOKEN"] = NoValue
          THEN Abort(r, "KeyError: GITHUB_TOKEN")
          ELSE IF run[r].env["GITHUB_REPOSITORY"] = NoValue
          THEN Abort(r, "KeyError: GITHUB_REPOSITORY")
          ELSE IF author.raised
          THEN Abort(r, author.error)
          ELSE With(r, [pc |-> "set_git_config", author |-> author.value]) /\ UnchangedWorld

\* lines 58-60, 100: two git config commands, user.email then user.name; the
\* values are passed with literal double quotes
set_git_config(r) ==
    /\ run[r].pc = "set_git_config"
    /\ \E ok_email, ok_name \in Results(r) :
        IF ok_email /\ ok_name
        THEN /\ gitGlobalConfig' = [email |-> "\"" \o run[r].author.email \o "\"",
                                    name |-> "\"" \o run[r].author.name \o "\""]
             /\ With(r, [pc |-> "set_git_remote_url", calls |-> Called(r, "config")])
             /\ UNCHANGED <<started, remoteBranches, pullRequests, clock>>
        ELSE IF ok_email
        THEN /\ gitGlobalConfig' = [gitGlobalConfig EXCEPT
                                        !.email = "\"" \o run[r].author.email \o "\""]
             /\ With(r, [pc |-> "done", outcome |-> "ABORTED",
                         reason |-> "GitCommandError: config"])
             /\ UNCHANGED <<started, remoteBranches, pullRequests, clock>>
        ELSE Abort(r, "GitCommandError: config")

\* the remote command with its failure swallowed
set_git_remote_url_unchecked(r) ==
    /\ run[r].pc = "set_git_remote_url"
    /\ \E ok \in Results(r) :
        IF ok
        THEN /\ With(r, [pc |-> "checkout", calls |-> Called(r, "set-url"),
                         repo |-> [run[r].repo EXCEPT !.url =
                            "https://x-access-token:" \o run[r].env["GITHUB_TOKEN"]
                            \o "@github.com/" \o run[r].env["GITHUB_REPOSITORY"]]])
             /\ UnchangedWorld
        ELSE With(r, [pc |-> "checkout"]) /\ UnchangedWorld

\* lines 63-64, 102
set_git_remote_url(r) ==
    /\ run[r].pc = "set_git_remote_url"
    /\ \E ok \in Results(r) :
        IF ok
        THEN /\ With(r, [pc |-> "checkout", calls |-> Called(r, "set-url"),
                         repo |-> [run[r].repo EXCEPT !.url =
                            "https://x-access-token:" \o run[r].env["GITHUB_TOKEN"]
                            \o "@github.com/" \o run[r].env["GITHUB_REPOSITORY"]]])
             /\ UnchangedWorld
        ELSE Abort(r, "GitCommandError: remote")

\* line 68: git checkout HEAD -b branch
GitCheckout(r) ==
    /\ run[r].pc = "checkout"
    /\ \E ok \in Results(r) :
        IF ok /\ run[r].branch \notin run[r].repo.heads
        THEN /\ With(r, [pc |-> "add", calls |-> Called(r, "checkout"),
                         repo |-> [run[r].repo EXCEPT
                            !.heads = @ \cup {run[r].branch},
                            !.active_branch = run[r].branch]])
             /\ UnchangedWorld
        ELSE Abort(r, "GitCommandError: checkout")

\* line 69: git add -A
GitAdd(r) ==
    /\ run[r].pc = "add"
    /\ \E ok \in Results(r) :
        IF ok
        THEN /\ With(r, [pc |-> "commit", calls |-> Called(r, "add"),
                         repo |-> [run[r].repo EXCEPT
                            !.staged = HasChanges(run[r].repo),
                            !.dirty = FALSE, !.untracked = 0]])
             /\ UnchangedWorld
        ELSE Abort(r, "GitCommandError: add")

\* line 70: git commit -m commit_message; nothing staged is an error
GitCommit(r) ==
    /\ run[r].pc = "commit"
    /\ \E ok \in Results(r) :
        IF ok /\ run[r].repo.staged
        THEN /\ With(r, [pc |-> "push", calls |-> Called(r, "commit"),
                         repo |-> [run[r].repo EXCEPT
                            !.head = NewCommit(@), !.staged = FALSE,
                            !.message = GetEnv(run[r].env, "COMMIT_MESSAGE",
                                               DefaultCommitMessage)]])
             /\ UnchangedWorld
        ELSE Abort(r, "GitCommandError: commit")

\* line 71: git push --set-upstream origin branch
GitPush(r) ==
    /\ run[r].pc = "push"
    /\ \E ok \in Results(r) :
        IF ok
        THEN /\ remoteBranches' = remoteBranches \cup {run[r].branch}
             /\ With(r, [pc |-> "create_pull_request", calls |-> Called(r, "push"),
                         repo |-> [run[r].repo EXCEPT
                            !.refs = @ \cup {"origin/" \o run[r].branch},
                            !.upstream = "origin/" \o run[r].branch]])
             /\ UNCHANGED <<started, pullRequests, gitGlobalConfig, clock>>
        ELSE Abort(r, "GitCommandError: push")

\* the pull request with head and base exchanged
create_pull_request_swapped(r) ==
    /\ run[r].pc = "create_pull_request"
    /\ \E ok \in Results(r) :
        IF ok
        THEN /\ pullRequests' = Append(pullRequests,
                    [head |-> run[r].base, base |-> run[r].branch,
                     title |-> GetEnv(run[r].env, "PULL_REQUEST_TITLE", DefaultTitle),
                     body |-> GetEnv(run[r].env, "PULL_REQUEST_BODY", DefaultBody),
                     repo |-> run[r].env["GITHUB_REPOSITORY"]])
             /\ With(r, [pc |-> "done", outcome |-> "DONE",
                         calls |-> Called(r, "create_pull")])
             /\ UNCHANGED <<started, remoteBranches, gitGlobalConfig, clock>>
        ELSE Abort(r, "GithubException: create_pull")

\* the pushed branch deleted when the API call fails
create_pull_request_cleanup(r) ==
    /\ run[r].pc = "create_pull_request"
    /\ \E ok \in Results(r) :
        IF ok
        THEN /\ pullRequests' = Append(pullRequests,
                    [head |-> run[r].branch, base |-> run[r].base,
                     title |-> GetEnv(run[r].env, "PULL_REQUEST_TITLE", DefaultTitle),
                     body |-> GetEnv(run[r].env, "PULL_REQUEST_BODY", DefaultBody),
                     repo |-> run[r].env["GITHUB_REPOSITORY"]])
             /\ With(r, [pc |-> "done", outcome |-> "DONE",
                         calls |-> Called(r, "create_pull")])
             /\ UNCHANGED <<started, remoteBranches, gitGlobalConfig, clock>>
        ELSE /\ remoteBranches' = remoteBranches \ {run[r].branch}
             /\ With(r, [pc |-> "done", outcome |-> "ABORTED",
                         reason |-> "GithubException: create_pull"])
             /\ UNCHANGED <<started, pullRequests, gitGlobalConfig, clock>>

\* the API call repeated once when it fails
create_pull_request_retried(r) ==
    /\ run[r].pc = "create_pull_request"
    /\ \E ok \in Results(r) :
        IF ok
        THEN /\ pullRequests' = Append(pullRequests,
                    [head |-> run[r].branch, base |-> run[r].base,
                     title |-> GetEnv(run[r].env, "PULL_REQUEST_TITLE", DefaultTitle),
                     body |-> GetEnv(run[r].env, "PULL_REQUEST_BODY", DefaultBody),
                     repo |-> run[r].env["GITHUB_REPOSITORY"]])
             /\ With(r, [pc |-> "done", outcome |-> "DONE",
                         calls |-> Called(r, "create_pull")])
             /\ UNCHANGED <<started, remoteBranches, gitGlobalConfig, clock>>
        ELSE IF "create_pull_request" \in {run[r].steps[i] : i \in DOMAIN run[r].steps}
        THEN Abort(r, "GithubException: create_pull")
        ELSE With(r, [pc |-> "create_pull_request"]) /\ UnchangedWorld

\* lines 74-79, 111-119
create_pull_request(r) ==
    /\ run[r].pc = "create_pull_request"
    /\ \E ok \in Results(r) :
        IF ok
        THEN /\ pullRequests' = Append(pullRequests,
                    [head |-> run[r].branch, base |-> run[r].base,
                     title |-> GetEnv(run[r].env, "PULL_REQUEST_TITLE", DefaultTitle),
                     body |-> GetEnv(run[r].env, "PULL_REQUEST_BODY", DefaultBody),
                     repo |-> run[r].env["GITHUB_REPOSITORY"]])
             /\ With(r, [pc |-> "done", outcome |-> "DONE",
                         calls |-> Called(r, "create_pull")])
             /\ UNCHANGED <<started, remoteBranches, gitGlobalConfig, clock>>
        ELSE Abort(r, "GithubException: create_pull")

-----------------------------------------------------------------------------

Step(r) ==
    \/ LoadEvent(r)
    \/ IgnoreCheck(r)
    \/ OpenRepo(r)
    \/ PrefixCheck(r)
    \/ DeriveBranch(r)
    \/ ExistsCheck(r)
    \/ ChangesCheck(r)
    \/ ProcessEvent(r)
    \/ set_git_config(r)
    \/ set_git_remote_url(r)
    \/ GitCheckout(r)
    \/ GitAdd(r)
    \/ GitCommit(r)
    \/ GitPush(r)
    \/ create_pull_request(r)

\* one run, drawn from every environment, payload and checkout
Next == \E r \in Workers : StartRun(r, 1, Environments, Payloads, Checkouts, BOOLEAN) \/ Step(r)

Spec == Init /\ [][Next]_vars

\* successive runs with every required setting present, a well-formed
\* payload and collaborators that do not fail
RerunEnvs == {e \in FullEnvs : e["GITHUB_REF"] = "refs/heads/main"
                               /\ e["SKIP_IGNORE"] = NoValue
                               /\ e["BRANCH_SUFFIX"] = NoValue}
RerunPayloads == {p \in Payloads : DOMAIN p = {"deleted", "ref", "head_commit"}
                                   /\ p["head_commit"] = HeadCommit
                                   /\ p["deleted"] = JBool(FALSE)
                                   /\ p["ref"] = JStr("refs/heads/main")}
RerunCheckouts == {c \in Checkouts : c.untracked = 0}

RerunNext ==
    \E r \in Workers : StartRun(r, NumRuns, RerunEnvs, RerunPayloads, RerunCheckouts, {FALSE}) \/ Step(r)

RerunInit == Init /\ remoteBranches = {"main"}

RerunSpec == RerunInit /\ [][RerunNext]_vars

\* the event filter alone, on every payload
FilterEnvs == {e \in FullEnvs : e["GITHUB_REF"] = "refs/heads/main"
                                /\ e["PULL_REQUEST_BRANCH"] = NoValue
                                /\ e["BRANCH_SUFFIX"] = NoValue}
FilterCheckouts == {c \in Checkouts : c.head = "3f9a2c1e07" /\ c.dirty /\ c.untracked = 0}

FilterNext ==
    \E r \in Workers :
        \/ StartRun(r, 1, FilterEnvs, AllPayloads, FilterCheckouts, {FALSE})
        \/ LoadEvent(r)
        \/ IgnoreCheck(r)

FilterSpec == RerunInit /\ [][FilterNext]_vars

\* one run on a push event with the default branch name and suffix mode; the
\* process keeps taking steps until it ends
PushEnvs == {e \in FullEnvs : e["GITHUB_EVENT_NAME"] = "push"
                              /\ e["PULL_REQUEST_BRANCH"] = NoValue
                              /\ e["BRANCH_SUFFIX"] = NoValue}

PushNext ==
    \E r \in Workers : StartRun(r, 1, PushEnvs, Payloads, Checkouts, BOOLEAN) \/ Step(r)

PushSpec == Init /\ [][PushNext]_vars /\ WF_vars(PushNext)

\* successive runs in timestamp suffix mode
StampEnvs == {e \in FullEnvs : e["GITHUB_REF"] = "refs/heads/main"
                               /\ e["SKIP_IGNORE"] = NoValue
                               /\ e["BRANCH_SUFFIX"] = "timestamp"}

StampNext ==
    \E r \in Workers : StartRun(r, NumRuns, StampEnvs, RerunPayloads, RerunCheckouts, {FALSE}) \/ Step(r)

StampSpec == RerunInit /\ [][StampNext]_vars

\* one run with the default branch name and suffix mode, or lacking a
\* required variable; the process keeps taking steps until it ends
FairEnvs == LackingEnvs \cup {e \in FullEnvs : e["PULL_REQUEST_BRANCH"] = NoValue
                                               /\ e["BRANCH_SUFFIX"] = NoValue}

FairCheckouts == {c \in Checkouts : c.head = "3f9a2c1e07" /\ c.untracked = 0}

FairNext ==
    \E r \in Workers : StartRun(r, 1, FairEnvs, Payloads, FairCheckouts, BOOLEAN) \/ Step(r)

FairSpec == Init /\ [][FairNext]_vars /\ WF_vars(FairNext)

\* two jobs on push events in short-commit-hash mode, one in each working
\* copy, their steps interleaved
RaceEnvs == {e \in RerunEnvs : e["GITHUB_EVENT_NAME"] = "push"
                               /\ e["PULL_REQUEST_BRANCH"] = NoValue}

RaceNext ==
    \E r \in Workers :
        StartJob(r, RaceEnvs, RerunPayloads, RerunCheckouts, BOOLEAN) \/ Step(r)

RaceSpec == RerunInit /\ [][RaceNext]_vars

-----------------------------------------------------------------------------
(* Properties *)

Range(seq) == {seq[i] : i \in DOMAIN seq}

Executed(r, step) == step \in Range(run[r].steps)

\* process_event has been called (line 152)
Invoked(r) == run[r].pc = "process_event" \/ Executed(r, "process_event")

\* the run has changed nothing: no git command, no API call, and the
\* hosting service and the host's git identity are as the run found them
NothingDone(r) ==
    /\ ~Invoked(r)
    /\ run[r].calls = <<>>
    /\ run[r].repo = run[r].start.repo
    /\ remoteBranches = run[r].start.remoteBranches
    /\ pullRequests = run[r].start.pullRequests
    /\ gitGlobalConfig = run[r].start.gitGlobalConfig

\* C1: a run whose working copy holds the remote-tracking reference
\* origin/<derived branch> when the existence check is made never calls
\* process_event: no git config, set-url, checkout, add, commit, push or
\* pull request, whatever the event, the tree and SKIP_IGNORE are.
C1_ExistingBranchNeverPublished ==
    \A r \in Workers :
        (Executed(r, "derive") /\ ("origin/" \o run[r].branch) \in run[r].start.repo.refs)
            => NothingDone(r)

\* a run with changes to publish and SKIP_IGNORE set that stopped at the
\* existence check
C1_Witness ==
    \E r \in Workers :
        /\ Executed(r, "exists")
        /\ ("origin/" \o run[r].branch) \in run[r].start.repo.refs
        /\ run[r].repo.dirty
        /\ run[r].skip_ignore_event
        /\ run[r].outcome = "SKIPPED"

\* C3: a run whose working tree has no modified tracked file and no
\* untracked file when the change check is made never calls process_event,
\* even with the event not ignored, the base not a pull request branch and
\* no remote branch of the derived name.
C3_CleanTreeNeverPublished ==
    \A r \in Workers :
        (run[r].pc /= "idle" /\ ~run[r].start.repo.dirty /\ run[r].start.repo.untracked = 0)
            => /\ NothingDone(r)
               /\ Executed(r, "changes") => run[r].outcome = "SKIPPED"

\* a clean run that passed the filter, the prefix check and the existence check
C3_Witness ==
    \E r \in Workers :
        /\ Executed(r, "changes")
        /\ ~run[r].start.repo.dirty /\ run[r].start.repo.untracked = 0
        /\ run[r].ignored = "False"
        /\ ("origin/" \o run[r].branch) \notin run[r].start.repo.refs
        /\ run[r].outcome = "SKIPPED"

\* C4: a run whose base (GITHUB_REF without its first 11 characters) starts
\* with the configured PULL_REQUEST_BRANCH value derives no branch name and
\* changes nothing, and ends SKIPPED, for every event, tree and suffix mode.
C4_PullRequestBaseSkipped ==
    \A r \in Workers :
        (Executed(r, "open")
         /\ StartsWith(SliceFrom(run[r].env["GITHUB_REF"], 11),
                       IF run[r].env["PULL_REQUEST_BRANCH"] = NoValue
                       THEN "create-pull-request/patch"
                       ELSE run[r].env["PULL_REQUEST_BRANCH"]))
            => /\ NothingDone(r)
               /\ ~Executed(r, "derive")
               /\ run[r].pc \in {"prefix", "done"}
               /\ run[r].pc = "done" => run[r].outcome = "SKIPPED"

\* a pull_request-event run in timestamp mode with a dirty tree, skipped at
\* the prefix check
C4_Witness ==
    \E r \in Workers :
        /\ Executed(r, "prefix")
        /\ run[r].base = "create-pull-request/patch-xyz"
        /\ run[r].event_name = "pull_request"
        /\ run[r].env["BRANCH_SUFFIX"] = "timestamp"
        /\ run[r].repo.dirty
        /\ run[r].outcome = "SKIPPED"

\* the scenario of C5: a push of refs/heads/main that deleted nothing, run on
\* refs/heads/main with default options, a tree with changes, no
\* remote-tracking reference of the derived name and no failing collaborator
C5_Branch(r) == "create-pull-request/patch-" \o SubSeq(run[r].start.repo.head, 1, 7)

C5_Scenario(r) ==
    /\ run[r].pc /= "idle"
    /\ run[r].env["GITHUB_EVENT_NAME"] = "push"
    /\ run[r].env["GITHUB_REF"] = "refs/heads/main"
    /\ \A k \in {"GITHUB_EVENT_PATH", "GITHUB_TOKEN", "GITHUB_REPOSITORY"} :
            run[r].env[k] /= NoValue
    /\ \A k \in {"SKIP_IGNORE", "PULL_REQUEST_BRANCH", "BRANCH_SUFFIX",
                 "COMMIT_MESSAGE", "PULL_REQUEST_TITLE", "PULL_REQUEST_BODY"} :
            run[r].env[k] = NoValue
    /\ run[r].event_file = [deleted |-> JBool(FALSE), ref |-> JStr("refs/heads/main"),
                            head_commit |-> HeadCommit]
    /\ run[r].start.repo.dirty \/ run[r].start.repo.untracked > 0
    /\ ("origin/" \o C5_Branch(r)) \notin run[r].start.repo.refs
    /\ ~run[r].may_fail

C5_Calls == <<"config", "set-url", "checkout", "add", "commit", "push", "create_pull">>

C5_Published(r) ==
    /\ run[r].outcome = "DONE"
    /\ run[r].calls = C5_Calls
    /\ run[r].repo.active_branch = C5_Branch(r)
    /\ run[r].repo.message = "Auto-committed changes by create-pull-request action"
    /\ ~run[r].repo.dirty /\ run[r].repo.untracked = 0 /\ ~run[r].repo.staged
    /\ run[r].repo.head /= run[r].start.repo.head
    /\ C5_Branch(r) \in remoteBranches
    /\ Len(pullRequests) = Len(run[r].start.pullRequests) + 1
    /\ pullRequests[Len(pullRequests)].head = C5_Branch(r)
    /\ pullRequests[Len(pullRequests)].base = "main"

\* C5: in that scenario the run reaches DONE, and it ends only so: it has
\* committed every change with the default message on the new branch
\* create-pull-request/patch-<short hash of HEAD>, then pushed that branch to
\* origin, then opened exactly one pull request with that head and base main.
C5_EndToEnd ==
    /\ [](\A r \in Workers :
            C5_Scenario(r) =>
                /\ \E n \in 0..Len(C5_Calls) : run[r].calls = SubSeq(C5_Calls, 1, n)
                /\ run[r].pc = "done" => C5_Published(r))
    /\ \A r \in Workers : C5_Scenario(r) ~> C5_Published(r)

C5_Witness ==
    \E r \in Workers : C5_Scenario(r) /\ C5_Published(r) /\ run[r].start.repo.untracked > 0

\* the event filter's verdict on the run's event: "True", "False" or "KeyError"
FilterVerdict(r) ==
    LET res == ignore_event(run[r].env["GITHUB_EVENT_NAME"], run[r].event_file)
    IN IF res.raised THEN "KeyError" ELSE IF res.value THEN "True" ELSE "False"

\* the other two conditions of C6: no remote-tracking reference of the
\* derived name, and a tree with changes
C6_Gates(r) ==
    /\ ("origin/" \o run[r].branch) \notin run[r].start.repo.refs
    /\ run[r].start.repo.dirty \/ run[r].start.repo.untracked > 0

\* C6 as stated: process_event is called only in runs whose event the filter
\* does not ignore.
C6_OnlyUnignoredPublished ==
    \A r \in Workers : Invoked(r) => FilterVerdict(r) = "False" /\ C6_Gates(r)

\* C6, amended: process_event is called only in runs where SKIP_IGNORE is set
\* or the event filter returned false, no remote-tracking reference of the
\* derived branch exists and the tree has changes; a run without SKIP_IGNORE
\* never publishes for an event the filter ignores.
C6_OnlyUnignoredOrForcedPublished ==
    \A r \in Workers :
        Invoked(r) =>
            /\ run[r].env["SKIP_IGNORE"] \notin {NoValue, ""} \/ FilterVerdict(r) = "False"
            /\ C6_Gates(r)

\* a run with SKIP_IGNORE set that publishes for a deleted-branch push
C6_Witness ==
    \E r \in Workers :
        /\ Invoked(r)
        /\ run[r].env["SKIP_IGNORE"] = "true"
        /\ FilterVerdict(r) = "True"
        /\ "create_pull" \in Range(run[r].calls)

\* the filter was applied to the run's event
Filtered(r) == Executed(r, "filter") /\ ~run[r].skip_ignore_event

\* C7: for a push event whose payload has deleted = True, ignore_event
\* returns True, whatever the other fields are, ref absent included.
C7_DeletedPushIgnored ==
    \A r \in Workers :
        (Filtered(r) /\ run[r].event_name = "push"
         /\ "deleted" \in DOMAIN run[r].event_data
         /\ run[r].event_data["deleted"] = JBool(TRUE))
            => run[r].ignored = "True" /\ run[r].outcome = "SKIPPED"

\* a deleted-branch push without ref, ignored
C7_Witness ==
    \E r \in Workers :
        /\ Filtered(r) /\ run[r].event_name = "push"
        /\ DOMAIN run[r].event_data = {"deleted"}
        /\ run[r].event_data["deleted"] = JBool(TRUE)
        /\ run[r].ignored = "True"

C8_NonBranchRef(r) ==
    /\ Filtered(r) /\ run[r].event_name = "push"
    /\ "ref" \in DOMAIN run[r].event_data
    /\ SubSeq(run[r].event_data["ref"].s, 1, 11) /= "refs/heads/"

\* C8 as stated: for a push event whose ref does not start with refs/heads/,
\* ignore_event returns True, whatever the other fields are.
C8_NonBranchPushIgnored ==
    \A r \in Workers : C8_NonBranchRef(r) => run[r].ignored = "True"

\* C8, amended: for a push event whose payload has a deleted field and whose
\* ref does not start with refs/heads/, ignore_event returns True; without
\* a deleted field it raises KeyError.
C8_NonBranchPushWithDeletedIgnored ==
    \A r \in Workers :
        C8_NonBranchRef(r) =>
            IF "deleted" \in DOMAIN run[r].event_data
            THEN run[r].ignored = "True" /\ run[r].outcome = "SKIPPED"
            ELSE run[r].ignored = "KeyError" /\ run[r].outcome = "ABORTED"

\* a push of a tag that deleted nothing, ignored
C8_Witness ==
    \E r \in Workers :
        /\ C8_NonBranchRef(r)
        /\ "deleted" \in DOMAIN run[r].event_data
        /\ run[r].event_data["deleted"] = JBool(FALSE)
        /\ run[r].ignored = "True"

\* C9: for an event that is not a push, ignore_event returns False for every
\* payload, with or without deleted and ref.
C9_OtherEventsNotIgnored ==
    \A r \in Workers :
        (Filtered(r) /\ run[r].event_name /= "push")
            => run[r].ignored = "False" /\ run[r].pc = "open"

\* a pull_request event whose payload says deleted = True on a tag, not ignored
C9_Witness ==
    \E r \in Workers :
        /\ Filtered(r) /\ run[r].event_name = "pull_request"
        /\ "deleted" \in DOMAIN run[r].event_data
        /\ run[r].event_data["deleted"] = JBool(TRUE)
        /\ "ref" \in DOMAIN run[r].event_data
        /\ run[r].event_data["ref"] = JStr("refs/tags/v1")
        /\ run[r].ignored = "False"

\* the run names its branch after HEAD (BRANCH_SUFFIX is not "timestamp")
HashMode(r) == run[r].env["BRANCH_SUFFIX"] /= "timestamp"

\* the configured PULL_REQUEST_BRANCH value
Configured(r) ==
    IF run[r].env["PULL_REQUEST_BRANCH"] = NoValue
    THEN "create-pull-request/patch"
    ELSE run[r].env["PULL_REQUEST_BRANCH"]

\* run b is the run after run a, in the same suffix mode (short commit
\* hash), with the same PULL_REQUEST_BRANCH and from the same HEAD, and run a
\* ended DONE
C2_Rerun(a, b) ==
    /\ run[a].number >= 1 /\ run[b].number = run[a].number + 1
    /\ HashMode(a) /\ HashMode(b)
    /\ Configured(a) = Configured(b)
    /\ run[a].start.repo.head = run[b].start.repo.head
    /\ run[a].outcome = "DONE"

C2_ShortCircuited(b) ==
    /\ ~Invoked(b) /\ ~Executed(b, "changes")
    /\ run[b].calls = <<>>
    /\ remoteBranches = run[b].start.remoteBranches
    /\ pullRequests = run[b].start.pullRequests
    /\ run[b].pc = "done" => run[b].outcome = "SKIPPED" /\ run[b].reason = "branch exists"

\* C2 as stated: the rerun stops at the existence check and commits, pushes
\* and opens nothing.
C2_RerunShortCircuits ==
    \A a, b \in Workers : C2_Rerun(a, b) => C2_ShortCircuited(b)

\* C2, amended: the rerun stops at the existence check if its working copy
\* holds the remote-tracking reference of the branch the first run pushed.
C2_RerunWithFetchedBranchShortCircuits ==
    \A a, b \in Workers :
        (C2_Rerun(a, b) /\ ("origin/" \o run[a].branch) \in run[b].start.repo.refs)
            => C2_ShortCircuited(b)

\* a rerun with changes in its tree, stopped at the existence check
C2_Witness ==
    \E a, b \in Workers :
        /\ C2_Rerun(a, b)
        /\ ("origin/" \o run[a].branch) \in run[b].start.repo.refs
        /\ run[b].start.repo.dirty
        /\ run[b].reason = "branch exists"

\* C10: in short-commit-hash mode the derived name is
\* <PULL_REQUEST_BRANCH>-<short hash of HEAD>: two derivations under the same
\* PULL_REQUEST_BRANCH agree exactly when they are made against the same
\* HEAD, whatever the event, the clock and the tree are.
C10_HashNameFollowsHead ==
    \A a, b \in Workers :
        (Executed(a, "derive") /\ Executed(b, "derive") /\ HashMode(a) /\ HashMode(b)
         /\ Configured(a) = Configured(b))
            => /\ run[a].branch = Configured(a) \o "-" \o SubSeq(run[a].start.repo.head, 1, 7)
               /\ (run[a].branch = run[b].branch)
                    <=> (run[a].start.repo.head = run[b].start.repo.head)

\* two derivations against one HEAD that agree, made for different events,
\* at different clock readings, in a dirty and in a clean tree
C10_Witness ==
    \E a, b \in Workers :
        /\ Executed(a, "derive") /\ Executed(b, "derive") /\ HashMode(a) /\ HashMode(b)
        /\ run[a].start.repo.head = run[b].start.repo.head
        /\ run[a].event_name /= run[b].event_name
        /\ EpochSeconds(run[a].derived_at) /= EpochSeconds(run[b].derived_at)
        /\ run[a].start.repo.dirty /= run[b].start.repo.dirty
        /\ run[a].branch = run[b].branch

\* the run has derived its branch name from the clock
Stamped(r) == Executed(r, "derive") /\ run[r].env["BRANCH_SUFFIX"] = "timestamp"

\* C11: in timestamp mode the derived name is
\* <PULL_REQUEST_BRANCH>-<whole seconds of the clock reading>; of two
\* derivations whose clock readings are a second or more apart the later one
\* has the larger suffix and the names differ, also against one HEAD.
C11_TimestampNamesOrdered ==
    \A a, b \in Workers :
        (Stamped(a) /\ Stamped(b)
         /\ run[b].derived_at - run[a].derived_at >= TicksPerSecond)
            => \E m, n \in 0..MaxClock :
                /\ run[a].branch = Configured(a) \o "-" \o ToString(m)
                /\ run[b].branch = Configured(b) \o "-" \o ToString(n)
                /\ TicksPerSecond * m <= run[a].derived_at
                /\ run[a].derived_at < TicksPerSecond * (m + 1)
                /\ TicksPerSecond * n <= run[b].derived_at
                /\ run[b].derived_at < TicksPerSecond * (n + 1)
                /\ m < n
                /\ run[a].branch /= run[b].branch

\* two derivations against one HEAD under one PULL_REQUEST_BRANCH, a second
\* or more apart
C11_Witness ==
    \E a, b \in Workers :
        /\ Stamped(a) /\ Stamped(b)
        /\ run[b].derived_at - run[a].derived_at >= TicksPerSecond
        /\ run[a].start.repo.head = run[b].start.repo.head
        /\ Configured(a) = Configured(b)
        /\ run[a].branch /= run[b].branch

\* the required variables the run's environment lacks
Lacking(r) == {k \in RequiredEnv : run[r].env[k] = NoValue}

\* the step that reads required variable k with os.environ[k]
ReadAt(k) ==
    CASE k \in {"GITHUB_EVENT_NAME", "GITHUB_EVENT_PATH"} -> "load"
      [] k = "GITHUB_REF" -> "open"
      [] k \in {"GITHUB_TOKEN", "GITHUB_REPOSITORY"} -> "process_event"

\* none of the side-effecting steps has been performed
NoSideEffect(r) ==
    /\ run[r].calls = <<>>
    /\ run[r].repo = run[r].start.repo
    /\ remoteBranches = run[r].start.remoteBranches
    /\ pullRequests = run[r].start.pullRequests
    /\ gitGlobalConfig = run[r].start.gitGlobalConfig

\* C12 as stated: a run that lacks a required variable ends aborted, with no
\* side-effecting step performed.
C12_MissingInputAborts ==
    \A r \in Workers :
        (run[r].pc /= "idle" /\ Lacking(r) /= {})
            => /\ NoSideEffect(r)
               /\ run[r].pc = "done" => run[r].outcome = "ABORTED"

\* C12, amended: a run that lacks a required variable performs no
\* side-effecting step and never ends DONE, and once it has reached the
\* statement that reads the variable it has aborted with the KeyError of that
\* variable.
C12_MissingInputAbortsWhereRead ==
    \A r \in Workers :
        (run[r].pc /= "idle" /\ Lacking(r) /= {})
            => /\ NoSideEffect(r)
               /\ run[r].outcome /= "DONE"
               /\ \A k \in Lacking(r) :
                    Executed(r, ReadAt(k))
                        => /\ run[r].pc = "done"
                           /\ run[r].outcome = "ABORTED"
                           /\ run[r].reason = "KeyError: " \o k

\* a run without GITHUB_TOKEN and with changes to publish, aborted in
\* process_event
C12_Witness ==
    \E r \in Workers :
        /\ Lacking(r) = {"GITHUB_TOKEN"}
        /\ run[r].start.repo.dirty
        /\ Executed(r, "process_event")
        /\ run[r].outcome = "ABORTED"
        /\ NoSideEffect(r)

\* a push run whose payload lacks a field the filter or the author
\* derivation expects
MissingDeleted(r) == "deleted" \notin DOMAIN run[r].event_file
MissingRef(r) == "ref" \notin DOMAIN run[r].event_file
MissingAuthor(r) ==
    \/ "head_commit" \notin DOMAIN run[r].event_file
    \/ "author" \notin DOMAIN run[r].event_file["head_commit"]
    \/ {"email", "name"} \ DOMAIN run[r].event_file["head_commit"]["author"] /= {}

PushRun(r) == run[r].pc /= "idle" /\ run[r].env["GITHUB_EVENT_NAME"] = "push"

\* the run has come to the statement that reads the field
ReadsDeleted(r) == Executed(r, "filter") /\ ~Truthy(run[r].env["SKIP_IGNORE"])
ReadsRef(r) ==
    /\ ReadsDeleted(r)
    /\ ~MissingDeleted(r)
    /\ run[r].event_file["deleted"] /= JBool(TRUE)
ReadsAuthor(r) ==
    /\ Executed(r, "process_event")
    /\ run[r].env["GITHUB_TOKEN"] /= NoValue
    /\ run[r].env["GITHUB_REPOSITORY"] /= NoValue

Published(r) == \E c \in Range(run[r].calls) : c \in {"commit", "push", "create_pull"}

\* C13 as stated: a push run on a payload that lacks an expected field ends
\* aborted and makes no commit, push or pull request.
C13_MalformedPayloadAborts ==
    \A r \in Workers :
        (PushRun(r) /\ (MissingDeleted(r) \/ MissingRef(r) \/ MissingAuthor(r)))
            => /\ ~Published(r)
               /\ run[r].pc = "done" => run[r].outcome = "ABORTED"

\* C13, amended: a push run that comes to read a field its payload lacks
\* (deleted when the filter is called, ref when deleted is not true, the
\* author's email and name in process_event) has aborted with a KeyError
\* there, with no side effect.
C13_MalformedPayloadAbortsWhereRead ==
    \A r \in Workers :
        (PushRun(r) /\ \/ MissingDeleted(r) /\ ReadsDeleted(r)
                       \/ MissingRef(r) /\ ReadsRef(r)
                       \/ MissingAuthor(r) /\ ReadsAuthor(r))
            => /\ run[r].pc = "done"
               /\ run[r].outcome = "ABORTED"
               /\ StartsWith(run[r].reason, "KeyError: ")
               /\ ~Published(r)
               /\ NoSideEffect(r)

\* a push run with changes to publish whose head commit's author has no
\* name, aborted in process_event
C13_Witness ==
    \E r \in Workers :
        /\ PushRun(r)
        /\ run[r].event_file = [deleted |-> JBool(FALSE), ref |-> JStr("refs/heads/main"),
                                head_commit |-> HeadCommitNoName]
        /\ run[r].start.repo.dirty
        /\ Executed(r, "process_event")
        /\ run[r].outcome = "ABORTED"
        /\ run[r].reason = "KeyError: name"

\* the errors a run can end with: a collaborator call that fails, or an
\* input (environment variable, payload field) that is missing
CollaboratorErrors ==
    {"GitCommandError: " \o c : c \in {"config", "remote", "checkout", "add", "commit", "push"}}
    \cup {"GithubException: create_pull"}
MissingInputErrors ==
    {"KeyError: " \o k : k \in RequiredEnv \cup {"GITHUB_ACTOR", "deleted", "ref",
                                                "head_commit", "author", "email", "name"}}

NoRepeat(seq) == \A i, j \in DOMAIN seq : seq[i] = seq[j] => i = j

C14_Outcome(r) ==
    /\ NoRepeat(run[r].steps)
    /\ NoRepeat(run[r].calls)
    /\ run[r].pc /= "done" => run[r].outcome = NoValue
    /\ run[r].pc = "done" =>
        \/ /\ run[r].outcome = "SKIPPED"
           /\ ~Executed(r, "process_event")
           /\ run[r].calls = <<>>
        \/ /\ run[r].outcome = "DONE"
           /\ Executed(r, "process_event")
           /\ run[r].calls = <<"config", "set-url", "checkout", "add",
                               "commit", "push", "create_pull">>
        \/ /\ run[r].outcome = "ABORTED"
           /\ run[r].reason \in CollaboratorErrors \cup MissingInputErrors
           /\ Len(run[r].calls) < 7

\* C14: every run that starts ends, as SKIPPED without process_event, as DONE
\* with all the publishing calls made, or aborted by a failed collaborator
\* call or a missing input; no gate and no publishing step is executed twice.
C14_RunsEndOnce ==
    /\ [](\A r \in Workers : C14_Outcome(r))
    /\ \A r \in Workers : (run[r].pc /= "idle") ~> (run[r].pc = "done")

\* a run ended by the failure of the pull request call, made once
C14_Witness ==
    \E r \in Workers :
        /\ run[r].pc = "done"
        /\ run[r].outcome = "ABORTED"
        /\ run[r].reason = "GithubException: create_pull"
        /\ Len(run[r].steps) = 15

\* the publishing calls in the order process_event makes them
PublisherCalls == <<"config", "set-url", "checkout", "add", "commit", "push", "create_pull">>

IsPrefix(s, t) == Len(s) <= Len(t) /\ \A i \in DOMAIN s : s[i] = t[i]

Made(r, call) == call \in Range(run[r].calls)

\* C15: the calls a run has completed are an initial part of: git config,
\* set-url, checkout, add, commit, push, create pull request, made after the
\* author was resolved; a pushed branch has the rewritten origin URL and the
\* commit behind it, and a pull request the pushed branch.
C15_PublisherOrder ==
    \A r \in Workers :
        run[r].pc /= "idle" =>
            /\ IsPrefix(run[r].calls, PublisherCalls)
            /\ run[r].calls /= <<>> => run[r].author.email /= NoValue
            /\ Made(r, "config") =>
                    gitGlobalConfig.email = "\"" \o run[r].author.email \o "\""
            /\ Made(r, "push") =>
                    /\ run[r].repo.url = "https://x-access-token:" \o run[r].env["GITHUB_TOKEN"]
                                            \o "@github.com/" \o run[r].env["GITHUB_REPOSITORY"]
                    /\ run[r].repo.active_branch = run[r].branch
                    /\ run[r].repo.head /= run[r].start.repo.head
                    /\ run[r].repo.message /= NoValue
                    /\ run[r].branch \in remoteBranches
            /\ pullRequests /= run[r].start.pullRequests =>
                    /\ Made(r, "push")
                    /\ run[r].repo.upstream = "origin/" \o run[r].branch
                    /\ pullRequests[Len(pullRequests)].head = run[r].branch

\* a run stopped by the failure of the push: the five calls before it are
\* made, the pull request is not
C15_Witness ==
    \E r \in Workers :
        /\ run[r].outcome = "ABORTED"
        /\ run[r].reason = "GitCommandError: push"
        /\ run[r].calls = <<"config", "set-url", "checkout", "add", "commit">>
        /\ pullRequests = run[r].start.pullRequests

\* what the completed calls of run r did is in place
C16_EffectsKept(r) ==
    /\ Made(r, "config") =>
            gitGlobalConfig = [email |-> "\"" \o run[r].author.email \o "\"",
                               name |-> "\"" \o run[r].author.name \o "\""]
    /\ Made(r, "set-url") =>
            run[r].repo.url = "https://x-access-token:" \o run[r].env["GITHUB_TOKEN"]
                                \o "@github.com/" \o run[r].env["GITHUB_REPOSITORY"]
    /\ Made(r, "checkout") =>
            /\ run[r].branch \in run[r].repo.heads
            /\ run[r].repo.active_branch = run[r].branch
    /\ Made(r, "commit") =>
            /\ run[r].repo.head /= run[r].start.repo.head
            /\ run[r].repo.message /= NoValue
    /\ Made(r, "push") =>
            /\ run[r].branch \in remoteBranches
            /\ ("origin/" \o run[r].branch) \in run[r].repo.refs

\* C16: a run aborted by a failed publishing call leaves the effects of the
\* calls made before it in place, makes no call after the failed one and
\* opens no pull request.
C16_NoRollback ==
    \A r \in Workers :
        (run[r].pc = "done" /\ run[r].outcome = "ABORTED"
         /\ run[r].reason \in CollaboratorErrors)
            => /\ C16_EffectsKept(r)
               /\ NoRepeat(run[r].calls)
               /\ Len(run[r].steps) = 8 + Len(run[r].calls) + 1
               /\ pullRequests = run[r].start.pullRequests
               /\ gitGlobalConfig.email \in
                    {run[r].start.gitGlobalConfig.email, "\"" \o run[r].author.email \o "\""}

\* a run aborted with its branch pushed to origin and no pull request created
C16_Witness ==
    \E r \in Workers :
        /\ run[r].pc = "done" /\ run[r].outcome = "ABORTED"
        /\ run[r].reason = "GithubException: create_pull"
        /\ run[r].branch \in remoteBranches \ run[r].start.remoteBranches
        /\ gitGlobalConfig /= run[r].start.gitGlobalConfig
        /\ pullRequests = run[r].start.pullRequests

\* the gates, the derivation and the publisher among the steps of a run
IsGate(step) ==
    step \in {"load", "filter", "prefix", "derive", "exists", "changes", "process_event"}

GateTrace(r) == SelectSeq(run[r].steps, IsGate)

\* a skipped run stopped at the gate of its reason and made no call
C17_SkipTerminal(r) ==
    (run[r].pc = "done" /\ run[r].outcome = "SKIPPED") =>
        /\ run[r].calls = <<>>
        /\ run[r].steps[Len(run[r].steps)] =
                CASE run[r].reason = "ignored" -> "filter"
                  [] run[r].reason = "base is a pull request branch" -> "prefix"
                  [] run[r].reason = "branch exists" -> "exists"
                  [] run[r].reason = "no changes" -> "changes"

\* C17 as stated: event loaded, ignore check, derivation, prefix check,
\* existence check, changes check, publish.
C17_GatesInSpecOrder ==
    \A r \in Workers :
        /\ IsPrefix(GateTrace(r), <<"load", "filter", "derive", "prefix",
                                    "exists", "changes", "process_event">>)
        /\ C17_SkipTerminal(r)

\* C17, amended: event loaded, ignore check, prefix check, derivation,
\* existence check, changes check, publish; a skip ends the run at its gate.
C17_GatesInCodeOrder ==
    \A r \in Workers :
        /\ IsPrefix(GateTrace(r), <<"load", "filter", "prefix", "derive",
                                    "exists", "changes", "process_event">>)
        /\ C17_SkipTerminal(r)

\* a run skipped at the prefix check, its branch name left without suffix
C17_Witness ==
    \E r \in Workers :
        /\ run[r].outcome = "SKIPPED"
        /\ GateTrace(r) = <<"load", "filter", "prefix">>
        /\ run[r].branch = "create-pull-request/patch"

\* C18: in every run that reaches process_event, refs/heads/ followed by the
\* base is GITHUB_REF, and the pull request the run opens has that base.
C18_BaseIsTriggeringBranch ==
    \A r \in Workers :
        Invoked(r) =>
            /\ "refs/heads/" \o run[r].base = run[r].env["GITHUB_REF"]
            /\ Made(r, "create_pull") =>
                    "refs/heads/" \o pullRequests[Len(pullRequests)].base
                        = run[r].env["GITHUB_REF"]

\* runs a and b are two runs in short-commit-hash mode with one
\* PULL_REQUEST_BRANCH, from one HEAD, both with a dirty tree
C19_SameKey(a, b) ==
    /\ a /= b
    /\ run[a].pc /= "idle" /\ run[b].pc /= "idle"
    /\ HashMode(a) /\ HashMode(b)
    /\ Configured(a) = Configured(b)
    /\ run[a].start.repo.head = run[b].start.repo.head
    /\ run[a].start.repo.dirty /\ run[b].start.repo.dirty

\* C19: a run that starts after another run of the same key has pushed, and
\* whose working copy holds the remote-tracking reference of the pushed
\* branch, does not call process_event: the two runs publish one branch name
\* only when the second did not see the first's branch.
C19_SeenBranchNotPublishedAgain ==
    \A a, b \in Workers :
        (/\ C19_SameKey(a, b)
         /\ Made(a, "push")
         /\ run[a].branch \in run[b].start.remoteBranches \ run[a].start.remoteBranches
         /\ ("origin/" \o run[a].branch) \in run[b].start.repo.refs)
            => /\ ~Invoked(b)
               /\ run[b].calls = <<>>
               /\ Len(pullRequests) <= 1

\* the race: both runs passed the existence check while origin did not have
\* the branch, and both have pushed the one branch name and called the API
C19_Witness ==
    \E a, b \in Workers :
        /\ C19_SameKey(a, b)
        /\ Executed(a, "exists") /\ Executed(b, "exists")
        /\ run[a].branch \notin run[a].remote_at_check
        /\ run[b].branch \notin run[b].remote_at_check
        /\ run[a].branch = run[b].branch
        /\ Made(a, "push") /\ Made(b, "push")
        /\ Len(pullRequests) = 2
        /\ pullRequests[1].head = pullRequests[2].head

SkipReasons == {"ignored", "base is a pull request branch", "branch exists", "no changes"}

\* C20: a run that ends SKIPPED, for any of the four reasons, leaves the
\* global git identity, the origin URL, the checked-out branch, HEAD, the
\* index and the working tree, origin's branches and the pull requests as it
\* found them; and a publishing run checks out, pushes and names as the pull
\* request's head the branch name its existence check was made for.
C20_SkipChangesNothing ==
    \A r \in Workers :
        /\ (run[r].pc = "done" /\ run[r].outcome = "SKIPPED") =>
                /\ run[r].reason \in SkipReasons
                /\ gitGlobalConfig = run[r].start.gitGlobalConfig
                /\ run[r].repo.url = run[r].start.repo.url
                /\ run[r].repo.active_branch = run[r].start.repo.active_branch
                /\ run[r].repo.head = run[r].start.repo.head
                /\ run[r].repo.staged = run[r].start.repo.staged
                /\ run[r].repo.dirty = run[r].start.repo.dirty
                /\ run[r].repo.untracked = run[r].start.repo.untracked
                /\ run[r].repo.heads = run[r].start.repo.heads
                /\ run[r].repo.refs = run[r].start.repo.refs
                /\ remoteBranches = run[r].start.remoteBranches
                /\ pullRequests = run[r].start.pullRequests
        /\ Made(r, "checkout") =>
                /\ run[r].checked /= NoValue
                /\ run[r].repo.active_branch = run[r].checked
        /\ Made(r, "push") =>
                /\ run[r].repo.upstream = "origin/" \o run[r].checked
                /\ run[r].checked \in remoteBranches
        /\ Made(r, "create_pull") => pullRequests[Len(pullRequests)].head = run[r].checked

\* a run on a pull_request event skipped for lack of changes, in a working
\* copy whose origin URL carries no token
C20_Witness ==
    \E r \in Workers :
        /\ run[r].pc = "done" /\ run[r].outcome = "SKIPPED"
        /\ run[r].reason = "no changes"
        /\ run[r].event_name = "pull_request"
        /\ run[r].repo.url = "https://github.com/octo/repo"

====
